---------------------------- MODULE Spec2Model ----------------------------
(***************************************************************************)
(* The cmap lookup of ttf-parser (src/src/cmap.rs): Font::glyph_index,     *)
(* Font::glyph_variation_index and the subtable parsers they dispatch to,  *)
(* over byte buffers.  A buffer is a sequence of bytes; the byte at offset *)
(* k of a buffer d is d[k + 1].                                            *)
(***************************************************************************)
EXTENDS Integers, Sequences, FiniteSets, TLC

VARIABLES
    cmap_data,        \* the cmap table the Font hands to the lookup
    overflow_checks,  \* build profile: TRUE = arithmetic overflow panics
    c,                \* the code point of the call
    variation,        \* the variation selector of the call
    entry,            \* which public function was called
    pc,               \* position of the lookup
    num_tables,       \* numTables read from the header
    n,                \* encoding records consumed so far by the walk
    subtable_data,    \* the slice the current parser works on
    start,            \* format 4 binary search: lower bound
    end,              \* format 4 binary search: upper bound
    result            \* what the call returned (or that it panicked)

vars == <<cmap_data, overflow_checks, c, variation, entry, pc, num_tables, n,
          subtable_data, start, end, result>>

---------------------------------------------------------------------------
(* Outcomes.  An Option<u16> of a parser, the Result<GlyphId> of a public  *)
(* function, and a panic (an out-of-range slice, a read past the end, an   *)
(* arithmetic overflow under overflow checks) that unwinds the call.       *)

Some(v) == [t |-> "Some", v |-> v]
None == [t |-> "None", v |-> 0]
Panic == [t |-> "Panic", v |-> 0]
Ok(id) == [t |-> "Ok", v |-> id]
NoGlyph == [t |-> "NoGlyph", v |-> 0]
NoResult == [t |-> "Pending", v |-> 0]

U16Mod == 65536

---------------------------------------------------------------------------
(* 32-bit values are kept as two 16-bit halves.                            *)

U32(hi, lo) == [hi |-> hi, lo |-> lo]
ToU32(v) == U32(v \div U16Mod, v % U16Mod)
U32Lt(a, b) == a.hi < b.hi \/ (a.hi = b.hi /\ a.lo < b.lo)
U32Le(a, b) == a = b \/ U32Lt(a, b)
\* a + b modulo 2^32, with the carry out of bit 31
U32Add(a, b) ==
    LET lo == a.lo + b.lo
        hi == a.hi + b.hi + (lo \div U16Mod)
    IN [v |-> U32(hi % U16Mod, lo % U16Mod), overflow |-> hi >= U16Mod]
\* a - b modulo 2^32
U32Sub(a, b) ==
    LET lo == a.lo - b.lo
        borrow == IF lo < 0 THEN 1 ELSE 0
        hi == a.hi - b.hi - borrow
    IN U32((hi + U16Mod) % U16Mod, (lo + U16Mod) % U16Mod)
\* `as usize`: the value as a number where it is below 2^24; any larger
\* offset or count is past the end of every buffer of the model.
FitsUsize(a) == a.hi < 256
AsUsize(a) == a.hi * U16Mod + a.lo

---------------------------------------------------------------------------
(* Stream (crate::parser): a cursor over a byte slice, big-endian reads.   *)

Stream(data) == [data |-> data, offset |-> 0]
skip(s, k) == [s EXCEPT !.offset = @ + k]
skip_u16(s) == skip(s, 2)
skip_u32(s) == skip(s, 4)
\* a read of k bytes at the cursor stays inside the slice
can_read(s, k) == s.offset + k <= Len(s.data)
read_u8(s) == s.data[s.offset + 1]
read_u16(s) == s.data[s.offset + 1] * 256 + s.data[s.offset + 2]
read_u24(s) == (s.data[s.offset + 1] * 256 + s.data[s.offset + 2]) * 256
                   + s.data[s.offset + 3]
read_u32(s) == U32(s.data[s.offset + 1] * 256 + s.data[s.offset + 2],
                   s.data[s.offset + 3] * 256 + s.data[s.offset + 4])
read_i16(s) == LET u == read_u16(s) IN IF u >= 32768 THEN u - U16Mod ELSE u
\* Stream::read_at(data, pos): positional read
at(data, pos) == [data |-> data, offset |-> pos]
\* &data[offset..]
Slice(data, offset) == SubSeq(data, offset + 1, Len(data))
\* LazyArray<T>: count records of `size` bytes starting at the cursor
read_array(s, count, size) == [data |-> s.data, offset |-> s.offset,
                               len |-> count, size |-> size]
can_read_array(s, count, size) == can_read(s, count * size)
\* the stream positioned on record i of a LazyArray
array_at(arr, i) == [data |-> arr.data, offset |-> arr.offset + i * arr.size]

---------------------------------------------------------------------------
(* enum Format and parse_format                                            *)

parse_format(v) ==
    CASE v = 0 -> "ByteEncodingTable"
      [] v = 2 -> "HighByteMappingThroughTable"
      [] v = 4 -> "SegmentMappingToDeltaValues"
      [] v = 6 -> "TrimmedTableMapping"
      [] v = 8 -> "MixedCoverage"
      [] v = 10 -> "TrimmedArray"
      [] v = 12 -> "SegmentedCoverage"
      [] v = 13 -> "ManyToOneRangeMappings"
      [] v = 14 -> "UnicodeVariationSequences"
      [] OTHER -> "NoFormat"

---------------------------------------------------------------------------
(* Format 0.  `s` is the subtable's stream after the format was read.      *)

parse_byte_encoding_table(s, code_point) ==
    IF ~can_read(s, 2) THEN Panic
    ELSE
    LET length == read_u16(s)
        s1 == skip_u16(skip_u16(s))  \* length, language
    IN IF code_point < length
       THEN LET s2 == skip(s1, code_point)
            IN IF can_read(s2, 1) THEN Some(read_u8(s2)) ELSE Panic
       ELSE None

\* the offset in the subtable of the byte parse_byte_encoding_table reads
\* for code_point, or -1 when it reads none
byte_encoding_read_offset(s, code_point) ==
    IF ~can_read(s, 2) THEN -1
    ELSE IF code_point < read_u16(s)
         THEN skip(skip_u16(skip_u16(s)), code_point).offset
         ELSE -1

---------------------------------------------------------------------------
(* Format 2.                                                               *)

SubHeaderRecord_size == 8

SubHeaderRecord_parse(s) ==
    [first_code |-> read_u16(s),
     entry_count |-> read_u16(skip(s, 2)),
     id_delta |-> read_i16(skip(s, 4)),
     id_range_offset |-> read_u16(skip(s, 6))]

SetMax(S) == CHOOSE x \in S : \A y \in S : y <= x

parse_high_byte_mapping_through_table(data, code_point32) ==
    IF code_point32 > 65535 THEN None
    ELSE
    LET code_point == code_point32
        high_byte == code_point \div 256
        low_byte == code_point % 256
        s0 == skip_u16(skip_u16(skip_u16(Stream(data))))
    IN IF ~can_read_array(s0, 256, 2) THEN Panic
       ELSE
       LET sub_header_keys == read_array(s0, 256, 2)
           key(k) == read_u16(array_at(sub_header_keys, k))
           sub_headers_count == SetMax({key(k) \div 8 : k \in 0..255}) + 1
           s1 == skip(s0, 256 * 2)
           sub_headers_offset == s1.offset
       IN IF ~can_read_array(s1, sub_headers_count, SubHeaderRecord_size)
          THEN Panic
          ELSE
          LET sub_headers == read_array(s1, sub_headers_count,
                                        SubHeaderRecord_size)
              i == IF code_point < 255 THEN 0 ELSE key(high_byte) \div 8
              sub_header == SubHeaderRecord_parse(array_at(sub_headers, i))
              sum == sub_header.first_code + sub_header.entry_count
              range_end == sum % U16Mod
          IN IF sum >= U16Mod /\ overflow_checks THEN Panic
             ELSE IF low_byte < sub_header.first_code \/ low_byte > range_end
             THEN None
             ELSE
             LET index_offset == (low_byte - sub_header.first_code) * 2
                 offset == sub_headers_offset
                           + SubHeaderRecord_size * (i + 1)
                           - 2
                           + sub_header.id_range_offset
                           + index_offset
             IN IF ~can_read(at(data, offset), 2) THEN Panic
                ELSE
                LET glyph == read_u16(at(data, offset))
                IN IF glyph = 0 THEN None
                   ELSE Some((glyph + sub_header.id_delta + U16Mod) % U16Mod)

---------------------------------------------------------------------------
(* Format 4.                                                               *)

\* the header and the four parallel arrays (cmap.rs 223-237); seg_count
\* and the arrays' streams, or that a read_array ran past the slice
segment_arrays(data) ==
    LET s0 == skip_u16(skip_u16(skip_u16(Stream(data))))
    IN IF ~can_read(s0, 2) THEN [ok |-> FALSE]
       ELSE
       LET seg_count_x2 == read_u16(s0)
           seg_count == seg_count_x2 \div 2
           s1 == skip_u16(skip_u16(skip_u16(skip_u16(s0))))
           s2 == skip_u16(skip(s1, seg_count * 2))  \* endCode[], reservedPad
           s3 == skip(s2, seg_count * 2)            \* startCode[]
           s4 == skip(s3, seg_count * 2)            \* idDelta[]
       IN IF /\ can_read_array(s1, seg_count, 2)
             /\ can_read_array(s2, seg_count, 2)
             /\ can_read_array(s3, seg_count, 2)
             /\ can_read_array(s4, seg_count, 2)
          THEN [ok |-> TRUE,
                seg_count |-> seg_count,
                end_codes |-> read_array(s1, seg_count, 2),
                start_codes |-> read_array(s2, seg_count, 2),
                id_deltas |-> read_array(s3, seg_count, 2),
                id_range_offset_pos |-> s4.offset,
                id_range_offsets |-> read_array(s4, seg_count, 2)]
          ELSE [ok |-> FALSE]

\* the glyph of a segment that contains code_point (cmap.rs 250-265)
segment_glyph(data, a, index, code_point, start_value) ==
    LET id_range_offset == read_u16(array_at(a.id_range_offsets, index))
        id_delta == read_i16(array_at(a.id_deltas, index))
    IN IF id_range_offset = 0
       THEN Some((code_point + id_delta + U16Mod) % U16Mod)
       ELSE
       LET product == (code_point - start_value) * 2
           delta == product % U16Mod
           id_range_offset_pos == (a.id_range_offset_pos + index * 2) % U16Mod
           sum == ((id_range_offset_pos + delta) % U16Mod) + id_range_offset
           pos == sum % U16Mod
       IN IF overflow_checks /\ (product >= U16Mod \/ sum >= U16Mod)
          THEN Panic
          ELSE IF ~can_read(at(data, pos), 2) THEN Panic
          ELSE
          LET glyph_array_value == read_u16(at(data, pos))
          IN IF glyph_array_value = 0 THEN None
             ELSE Some((glyph_array_value + id_delta + U16Mod) % U16Mod)

\* segment_search_step with `end_value > code_point` for the test on
\* endCode: a code point equal to a segment's endCode passes the segment by
segment_search_step_strict(data, a, code_point, lo, hi) ==
    LET index == (lo + hi) \div 2
        end_value == read_u16(array_at(a.end_codes, index))
    IN IF end_value > code_point
       THEN LET start_value == read_u16(array_at(a.start_codes, index))
            IN IF start_value > code_point
               THEN [t |-> "Continue", start |-> lo, end |-> index,
                     r |-> None]
               ELSE [t |-> "Return", start |-> lo, end |-> hi,
                     r |-> segment_glyph(data, a, index, code_point,
                                         start_value)]
       ELSE [t |-> "Continue", start |-> index + 1, end |-> hi, r |-> None]

\* segment_search_step with `start = index` for `start = index + 1`: the
\* lower bound moves to the probe, not past it
segment_search_step_stuck(data, a, code_point, lo, hi) ==
    LET index == (lo + hi) \div 2
        end_value == read_u16(array_at(a.end_codes, index))
    IN IF end_value >= code_point
       THEN LET start_value == read_u16(array_at(a.start_codes, index))
            IN IF start_value > code_point
               THEN [t |-> "Continue", start |-> lo, end |-> index,
                     r |-> None]
               ELSE [t |-> "Return", start |-> lo, end |-> hi,
                     r |-> segment_glyph(data, a, index, code_point,
                                         start_value)]
       ELSE [t |-> "Continue", start |-> index, end |-> hi, r |-> None]

\* one iteration of the binary search (cmap.rs 243-269) on [lo, hi)
segment_search_step(data, a, code_point, lo, hi) ==
    LET index == (lo + hi) \div 2
        end_value == read_u16(array_at(a.end_codes, index))
    IN IF end_value >= code_point
       THEN LET start_value == read_u16(array_at(a.start_codes, index))
            IN IF start_value > code_point
               THEN [t |-> "Continue", start |-> lo, end |-> index,
                     r |-> None]
               ELSE [t |-> "Return", start |-> lo, end |-> hi,
                     r |-> segment_glyph(data, a, index, code_point,
                                         start_value)]
       ELSE [t |-> "Continue", start |-> index + 1, end |-> hi, r |-> None]

RECURSIVE segment_search(_, _, _, _, _)
segment_search(data, a, code_point, lo, hi) ==
    IF hi > lo
    THEN LET step == segment_search_step(data, a, code_point, lo, hi)
         IN IF step.t = "Return" THEN step.r
            ELSE segment_search(data, a, code_point, step.start, step.end)
    ELSE None

parse_segment_mapping_to_delta_values(data, code_point) ==
    IF code_point > 65535 THEN None
    ELSE LET a == segment_arrays(data)
         IN IF ~a.ok THEN Panic
            ELSE segment_search(data, a, code_point, 0, a.seg_count)

---------------------------------------------------------------------------
(* Formats 12 and 13.  `s` is the subtable's stream after the format.      *)

SequentialMapGroup_size == 12

\* SequentialMapGroup::parse; end is the exclusive bound endCharCode + 1
SequentialMapGroup_parse(s) ==
    LET sum == U32Add(read_u32(skip(s, 4)), U32(0, 1))
    IN [start |-> read_u32(s),
        end |-> sum.v,
        overflow |-> sum.overflow,
        start_glyph_id |-> read_u32(skip(s, 8))]

RECURSIVE segmented_coverage_groups(_, _, _, _)
segmented_coverage_groups(groups, g, code_point, format) ==
    IF g >= groups.len THEN None
    ELSE
    LET group == SequentialMapGroup_parse(array_at(groups, g))
        cp == ToU32(code_point)
    IN IF group.overflow /\ overflow_checks THEN Panic
       ELSE IF U32Le(group.start, cp) /\ U32Lt(cp, group.end)
       THEN IF format = "SegmentedCoverage"
            THEN LET sum == U32Add(group.start_glyph_id, cp)
                     id == U32Sub(sum.v, group.start)
                 IN IF sum.overflow /\ overflow_checks THEN Panic
                    ELSE Some(id.lo)
            ELSE Some(group.start_glyph_id.lo)
       ELSE segmented_coverage_groups(groups, g + 1, code_point, format)

parse_segmented_coverage(s, code_point, format) ==
    LET s1 == skip_u32(skip_u32(skip_u16(s)))  \* reserved, length, language
    IN IF ~can_read(s1, 4) THEN Panic
       ELSE
       LET num_groups == read_u32(s1)
           s2 == skip(s1, 4)
       IN IF ~FitsUsize(num_groups) THEN Panic
          ELSE IF ~can_read_array(s2, AsUsize(num_groups),
                                  SequentialMapGroup_size) THEN Panic
          ELSE segmented_coverage_groups(
                   read_array(s2, AsUsize(num_groups),
                              SequentialMapGroup_size),
                   0, code_point, format)

---------------------------------------------------------------------------
(* Format 14.                                                              *)

VariationSelectorRecord_size == 11
UnicodeRangeRecord_size == 4
UVSMappingRecord_size == 5

\* LazyArray::binary_search_by on the u24 key that starts each record:
\* the index of a record whose key equals `key`, or -1
RECURSIVE binary_search_by(_, _, _, _)
binary_search_by(arr, key, lo, hi) ==
    IF lo >= hi THEN -1
    ELSE LET mid == (lo + hi) \div 2
             v == read_u24(array_at(arr, mid))
         IN IF v = key THEN mid
            ELSE IF v < key THEN binary_search_by(arr, key, mid + 1, hi)
            ELSE binary_search_by(arr, key, lo, mid)

VariationSelectorRecord_parse(s) ==
    [variation |-> read_u24(s),
     default_uvs_offset |-> read_u32(skip(s, 3)),
     non_default_uvs_offset |-> read_u32(skip(s, 7))]

\* Option<Offset32>: a zero offset is None
IsNullOffset(o) == o = U32(0, 0)

UnicodeRangeRecord_parse(s) ==
    [start_unicode_value |-> read_u24(s),
     additional_count |-> read_u8(skip(s, 3))]

UnicodeRangeRecord_contains(range, ch) ==
    LET range_end == range.start_unicode_value + range.additional_count
    IN range.start_unicode_value >= ch /\ ch < range_end

\* a count-prefixed record table at `offset` of the subtable (cmap.rs
\* 110-112, 122-124): its LazyArray, or that the slice or a read failed
uvs_table(data, offset, size) ==
    IF ~FitsUsize(offset) \/ AsUsize(offset) > Len(data) THEN [ok |-> FALSE]
    ELSE
    LET s == Stream(Slice(data, AsUsize(offset)))
    IN IF ~can_read(s, 4) THEN [ok |-> FALSE]
       ELSE LET count == read_u32(s)
            IN IF FitsUsize(count)
                  /\ can_read_array(skip(s, 4), AsUsize(count), size)
               THEN [ok |-> TRUE,
                     arr |-> read_array(skip(s, 4), AsUsize(count), size)]
               ELSE [ok |-> FALSE]

\* cmap.rs 121-130
non_default_uvs(data, record, cp) ==
    IF IsNullOffset(record.non_default_uvs_offset) THEN NoGlyph
    ELSE
    LET tbl == uvs_table(data, record.non_default_uvs_offset,
                         UVSMappingRecord_size)
    IN IF ~tbl.ok THEN Panic
       ELSE LET m == binary_search_by(tbl.arr, cp, 0, tbl.arr.len)
            IN IF m >= 0
               THEN Ok(read_u16(skip(array_at(tbl.arr, m), 3)))
               ELSE NoGlyph

\* cmap.rs 109-130, after the selector's record was found: Ok / NoGlyph /
\* Panic, or "Default": return self.glyph_index(c)
uvs_record_lookup(data, record, cp) ==
    LET dflt == IF IsNullOffset(record.default_uvs_offset)
                THEN [ok |-> TRUE, arr |-> [len |-> 0]]
                ELSE uvs_table(data, record.default_uvs_offset,
                               UnicodeRangeRecord_size)
    IN IF ~dflt.ok THEN Panic
       ELSE IF \E i \in 0..(dflt.arr.len - 1) :
                  UnicodeRangeRecord_contains(
                      UnicodeRangeRecord_parse(array_at(dflt.arr, i)), cp)
       THEN [t |-> "Default", v |-> 0]
       ELSE non_default_uvs(data, record, cp)

parse_unicode_variation_sequences(data, cp, selector) ==
    LET s == skip_u32(skip_u16(Stream(data)))  \* format, length
    IN IF ~can_read(s, 4) THEN Panic
       ELSE
       LET num_var_selector_records == read_u32(s)
       IN IF ~FitsUsize(num_var_selector_records) THEN Panic
          ELSE IF ~can_read_array(skip(s, 4),
                                  AsUsize(num_var_selector_records),
                                  VariationSelectorRecord_size) THEN Panic
          ELSE
          LET records == read_array(skip(s, 4),
                                    AsUsize(num_var_selector_records),
                                    VariationSelectorRecord_size)
              found == binary_search_by(records, selector, 0, records.len)
          IN IF found < 0 THEN NoGlyph
             ELSE uvs_record_lookup(
                      data,
                      VariationSelectorRecord_parse(array_at(records, found)),
                      cp)

---------------------------------------------------------------------------
(* The directory walk shared by glyph_index and glyph_variation_index.      *)

\* the header (cmap.rs 13-15, 67-69): numTables can be read
header_readable(data) == can_read(skip_u16(Stream(data)), 2)
header_num_tables(data) == read_u16(skip_u16(Stream(data)))

\* encoding record k of the walk (cmap.rs 18-27, 72-81): its subtable's
\* slice and format, "Skip" for an unknown format code, or a panic
open_subtable(data, k) ==
    LET s == skip_u16(skip_u16(skip(skip_u16(skip_u16(Stream(data))), 8 * k)))
    IN IF ~can_read(s, 4) THEN [t |-> "Panic", format |-> "", data |-> <<>>]
       ELSE
       LET offset == read_u32(s)
       IN IF ~FitsUsize(offset) \/ AsUsize(offset) > Len(data)
          THEN [t |-> "Panic", format |-> "", data |-> <<>>]
          ELSE
          LET sub == Slice(data, AsUsize(offset))
          IN IF ~can_read(Stream(sub), 2)
             THEN [t |-> "Panic", format |-> "", data |-> sub]
             ELSE LET format == parse_format(read_u16(Stream(sub)))
                  IN IF format = "NoFormat"
                     THEN [t |-> "Skip", format |-> format, data |-> sub]
                     ELSE [t |-> "Format", format |-> format, data |-> sub]

\* the match on the format in glyph_index (cmap.rs 29-48)
dispatch(format, sub, code_point) ==
    CASE format = "ByteEncodingTable" ->
           parse_byte_encoding_table(skip_u16(Stream(sub)), code_point)
      [] format = "HighByteMappingThroughTable" ->
           parse_high_byte_mapping_through_table(sub, code_point)
      [] format = "SegmentMappingToDeltaValues" ->
           parse_segment_mapping_to_delta_values(sub, code_point)
      [] format \in {"SegmentedCoverage", "ManyToOneRangeMappings"} ->
           parse_segmented_coverage(skip_u16(Stream(sub)), code_point, format)
      [] OTHER -> [t |-> "Continue", v |-> 0]

\* one iteration of glyph_index's loop (cmap.rs 17-53) on record k
glyph_index_record(data, k, code_point) ==
    LET sub == open_subtable(data, k)
    IN IF sub.t = "Panic" THEN Panic
       ELSE IF sub.t = "Skip" THEN [t |-> "Continue", v |-> 0]
       ELSE LET glyph == dispatch(sub.format, sub.data, code_point)
            IN IF glyph.t = "Some" THEN Ok(glyph.v)
               ELSE IF glyph.t = "Panic" THEN Panic
               ELSE [t |-> "Continue", v |-> 0]

RECURSIVE glyph_index_from(_, _, _, _)
glyph_index_from(data, k, count, code_point) ==
    IF k >= count THEN NoGlyph
    ELSE LET r == glyph_index_record(data, k, code_point)
         IN IF r.t = "Continue"
            THEN glyph_index_from(data, k + 1, count, code_point)
            ELSE r

\* Font::glyph_index as a function of the buffer and the code point
glyph_index(data, code_point) ==
    IF ~header_readable(data) THEN Panic
    ELSE glyph_index_from(data, 0, header_num_tables(data), code_point)

\* one iteration of glyph_variation_index's loop (cmap.rs 71-88)
glyph_variation_index_record(data, k, code_point, selector) ==
    LET sub == open_subtable(data, k)
    IN IF sub.t = "Panic" THEN Panic
       ELSE IF sub.t = "Skip" \/ sub.format # "UnicodeVariationSequences"
       THEN [t |-> "Continue", v |-> 0]
       ELSE parse_unicode_variation_sequences(sub.data, code_point, selector)

---------------------------------------------------------------------------
(* The wire layouts the parsers read, as encoders: the buffers of the      *)
(* model are built with them.                                              *)

BE16(v) == <<v \div 256, v % 256>>
BE24(v) == <<v \div 65536, (v \div 256) % 256, v % 256>>
BE32(a) == BE16(a.hi) \o BE16(a.lo)
\* an i16 as the u16 with the same bits
I16(d) == (d + U16Mod) % U16Mod

RECURSIVE Flatten(_)
Flatten(ss) == IF ss = <<>> THEN <<>> ELSE Head(ss) \o Flatten(Tail(ss))

RECURSIVE TotalLen(_)
TotalLen(ss) == IF ss = <<>> THEN 0 ELSE Len(Head(ss)) + TotalLen(Tail(ss))

Bytes(count, b) == [i \in 1..count |-> b]

\* format 0: length, language, glyphIdArray[256]
Format0Table(length, glyphs) ==
    BE16(0) \o BE16(length) \o BE16(0) \o [i \in 1..256 |-> glyphs[i - 1]]

\* format 2: subHeaderKeys[256], SubHeaderRecords, glyphIndexArray
Format2Table(keys, sub_headers, glyph_index_array) ==
    BE16(2) \o BE16(0) \o BE16(0)
    \o [b \in 1..512 |-> IF b % 2 = 1 THEN keys[(b - 1) \div 2] \div 256
                                      ELSE keys[(b - 1) \div 2] % 256]
    \o Flatten([i \in 1..Len(sub_headers) |->
           BE16(sub_headers[i].first_code)
           \o BE16(sub_headers[i].entry_count)
           \o BE16(I16(sub_headers[i].id_delta))
           \o BE16(sub_headers[i].id_range_offset)])
    \o Flatten([i \in 1..Len(glyph_index_array) |->
           BE16(glyph_index_array[i])])

\* format 4: segCountX2, the four parallel arrays, glyphIdArray
Format4Table(segs, glyph_id_array) ==
    BE16(4) \o BE16(0) \o BE16(0) \o BE16(2 * Len(segs))
    \o BE16(0) \o BE16(0) \o BE16(0)
    \o Flatten([i \in 1..Len(segs) |-> BE16(segs[i].end_code)])
    \o BE16(0)
    \o Flatten([i \in 1..Len(segs) |-> BE16(segs[i].start_code)])
    \o Flatten([i \in 1..Len(segs) |-> BE16(I16(segs[i].id_delta))])
    \o Flatten([i \in 1..Len(segs) |-> BE16(segs[i].id_range_offset)])
    \o Flatten([i \in 1..Len(glyph_id_array) |-> BE16(glyph_id_array[i])])

Segment(start_code, end_code, id_delta, id_range_offset) ==
    [start_code |-> start_code, end_code |-> end_code,
     id_delta |-> id_delta, id_range_offset |-> id_range_offset]

\* formats 12 and 13: reserved, length, language, numGroups, groups
Format12Table(format, groups) ==
    BE16(format) \o BE16(0) \o BE32(ToU32(16 + 12 * Len(groups)))
    \o BE32(ToU32(0)) \o BE32(ToU32(Len(groups)))
    \o Flatten([i \in 1..Len(groups) |->
           BE32(groups[i].start_char_code) \o BE32(groups[i].end_char_code)
           \o BE32(groups[i].start_glyph_id)])

Group(start_char_code, end_char_code, start_glyph_id) ==
    [start_char_code |-> start_char_code, end_char_code |-> end_char_code,
     start_glyph_id |-> start_glyph_id]

\* Default UVS table: numUnicodeValueRanges, UnicodeRangeRecords
DefaultUVSTable(ranges) ==
    BE32(ToU32(Len(ranges)))
    \o Flatten([i \in 1..Len(ranges) |->
           BE24(ranges[i].start_unicode_value)
           \o <<ranges[i].additional_count>>])

\* Non-Default UVS table: numUVSMappings, UVSMappingRecords
NonDefaultUVSTable(mappings) ==
    BE32(ToU32(Len(mappings)))
    \o Flatten([i \in 1..Len(mappings) |->
           BE24(mappings[i].unicode_value) \o BE16(mappings[i].glyph)])

\* the bytes of selector i's UVS tables (absent when the list is empty)
UVSTables(sel) ==
    (IF sel.ranges = <<>> THEN <<>> ELSE DefaultUVSTable(sel.ranges))
    \o (IF sel.mappings = <<>> THEN <<>>
        ELSE NonDefaultUVSTable(sel.mappings))

\* format 14: length, numVarSelectorRecords, VariationSelectorRecords,
\* then each selector's Default and Non-Default UVS tables
Format14Table(sels) ==
    LET first == 10 + VariationSelectorRecord_size * Len(sels)
        tables == [i \in 1..Len(sels) |-> UVSTables(sels[i])]
        base(i) == first + TotalLen(SubSeq(tables, 1, i - 1))
        default_offset(i) == IF sels[i].ranges = <<>> THEN 0 ELSE base(i)
        non_default_offset(i) ==
            IF sels[i].mappings = <<>> THEN 0
            ELSE base(i) + (IF sels[i].ranges = <<>> THEN 0
                            ELSE Len(DefaultUVSTable(sels[i].ranges)))
    IN BE16(14) \o BE32(ToU32(first + TotalLen(tables)))
       \o BE32(ToU32(Len(sels)))
       \o Flatten([i \in 1..Len(sels) |->
              BE24(sels[i].variation) \o BE32(ToU32(default_offset(i)))
              \o BE32(ToU32(non_default_offset(i)))])
       \o Flatten(tables)

Selector(v, ranges, mappings) ==
    [variation |-> v, ranges |-> ranges, mappings |-> mappings]
Range(first, additional_count) ==
    [start_unicode_value |-> first, additional_count |-> additional_count]
Mapping(unicode_value, glyph) ==
    [unicode_value |-> unicode_value, glyph |-> glyph]

\* a directory entry: a subtable, or an encoding record whose offset lies
\* `over` bytes past the end of the buffer's subtables
Table(bytes) == [bytes |-> bytes, dangling |-> FALSE, over |-> 0]
Dangling(over) == [bytes |-> <<>>, dangling |-> TRUE, over |-> over]

\* the cmap table: version, numTables, the encoding records, the subtables
Cmap(entries) ==
    LET count == Len(entries)
        bodies == [i \in 1..count |-> entries[i].bytes]
        first == 4 + 8 * count
        offset(i) == IF entries[i].dangling
                     THEN first + TotalLen(bodies) + entries[i].over
                     ELSE first + TotalLen(SubSeq(bodies, 1, i - 1))
    IN BE16(0) \o BE16(count)
       \o Flatten([i \in 1..count |->
              BE16(0) \o BE16(3) \o BE32(ToU32(offset(i)))])
       \o Flatten(bodies)

---------------------------------------------------------------------------
(* The fonts of the walk.                                                  *)

MaxTables == 2

\* format 0: 'B' (0x42) has glyph 0, every other byte code a glyph 1..255
ByteTable == Format0Table(262, [i \in 0..255 |->
                                   IF i = 66 THEN 0 ELSE (i % 255) + 1])
\* format 4: 'A' (0x41) -> 36, and the closing segment
SegmentTable == Format4Table(<<Segment(65, 65, -29, 0),
                               Segment(65535, 65535, 1, 0)>>, <<>>)
\* format 12: U+1F600..U+1F64F -> 200..
CoverageTable == Format12Table(12, <<Group(ToU32(128512), ToU32(128591),
                                           ToU32(200))>>)
\* format 13: the digits -> 7
ManyToOneTable == Format12Table(13, <<Group(ToU32(48), ToU32(57),
                                            ToU32(7))>>)
\* format 2: single-byte codes 0x30..0x3A through sub-header 0
HighByteTable == Format2Table([k \in 0..255 |-> 0],
                              <<[first_code |-> 48, entry_count |-> 10,
                                 id_delta |-> 5, id_range_offset |-> 2]>>,
                              <<0, 21, 22, 23, 24, 25, 26, 27, 28, 29, 30>>)
\* an unknown format code, and the recognised but unsupported format 6
UnknownTable == BE16(1) \o Bytes(4, 0)
TrimmedTable == BE16(6) \o Bytes(4, 0)
\* a format 4 subtable cut off before segCountX2
ShortTable == BE16(4) \o BE16(0)
\* format 14: U+FE00 with default range U+0030..U+0039 and a non-default
\* mapping of U+0035; U+FE01 with U+8FBB -> 4321; U+FE03 with no table
VariationTable == Format14Table(
    <<Selector(65024, <<Range(48, 9)>>, <<Mapping(53, 777)>>),
      Selector(65025, <<>>, <<Mapping(36795, 4321)>>),
      Selector(65027, <<>>, <<>>)>>)
\* a second format 14 subtable: U+FE02 with 'A' -> 99
VariationTable2 == Format14Table(
    <<Selector(65026, <<>>, <<Mapping(65, 99)>>)>>)

WalkEntries ==
    {Table(ByteTable), Table(SegmentTable), Table(CoverageTable),
     Table(ManyToOneTable), Table(HighByteTable), Table(UnknownTable),
     Table(TrimmedTable), Table(ShortTable), Table(VariationTable),
     Table(VariationTable2), Dangling(1)}

Directories == UNION {[1..k -> WalkEntries] : k \in 0..MaxTables}

\* buffers too short for a header or for the records numTables announces
RawBuffers == {<<>>, <<0, 0, 0, 1>>}

Fonts == {Cmap(d) : d \in Directories} \cup RawBuffers

CodePoints == {48, 53, 65, 66, 256, 36795, 128522}
Selectors == {65024, 65025, 65026, 65027}

---------------------------------------------------------------------------
(* The lookups as a state machine.                                         *)

Init ==
    /\ cmap_data \in Fonts
    /\ overflow_checks \in BOOLEAN
    /\ c = 0
    /\ variation = 0
    /\ entry = "none"
    /\ pc = "idle"
    /\ num_tables = 0
    /\ n = 0
    /\ subtable_data = <<>>
    /\ start = 0
    /\ end = 0
    /\ result = NoResult

\* the call returns r (or unwinds with a panic)
Return(r) ==
    /\ result' = r
    /\ pc' = "done"

\* cmap.rs 12-15: read the header, enter the loop
EnterWalk(loop) ==
    IF header_readable(cmap_data)
    THEN /\ num_tables' = header_num_tables(cmap_data)
         /\ n' = 0
         /\ pc' = loop
         /\ UNCHANGED result
    ELSE /\ Return(Panic)
         /\ UNCHANGED <<num_tables, n>>

\* a caller calls font.glyph_index(cp)
GlyphIndexCall ==
    /\ pc = "idle"
    /\ \E cp \in CodePoints : c' = cp
    /\ entry' = "glyph_index"
    /\ EnterWalk("glyph_index")
    /\ UNCHANGED <<cmap_data, overflow_checks, variation, subtable_data,
                   start, end>>

\* parse_unicode_variation_sequences calls self.glyph_index(c) (cmap.rs 116)
GlyphIndexDefault ==
    /\ pc = "default_glyph"
    /\ EnterWalk("glyph_index")
    /\ UNCHANGED <<cmap_data, overflow_checks, c, variation, entry,
                   subtable_data, start, end>>

\* one iteration of the loop of glyph_index
GlyphIndexRecord ==
    /\ pc = "glyph_index"
    /\ n < num_tables
    /\ LET r == glyph_index_record(cmap_data, n, c)
       IN /\ subtable_data' = open_subtable(cmap_data, n).data
          /\ IF r.t = "Continue"
             THEN /\ n' = n + 1
                  /\ UNCHANGED <<pc, result>>
             ELSE /\ Return(r)
                  /\ UNCHANGED n
    /\ UNCHANGED <<cmap_data, overflow_checks, c, variation, entry,
                   num_tables, start, end>>

\* the loop of glyph_index is over: Err(Error::NoGlyph)
GlyphIndexEnd ==
    /\ pc = "glyph_index"
    /\ n >= num_tables
    /\ Return(NoGlyph)
    /\ UNCHANGED <<cmap_data, overflow_checks, c, variation, entry,
                   num_tables, n, subtable_data, start, end>>

\* a caller calls font.glyph_variation_index(cp, v)
GlyphVariationIndexCall ==
    /\ pc = "idle"
    /\ \E cp \in CodePoints : c' = cp
    /\ \E v \in Selectors : variation' = v
    /\ entry' = "glyph_variation_index"
    /\ EnterWalk("glyph_variation_index")
    /\ UNCHANGED <<cmap_data, overflow_checks, subtable_data, start, end>>

\* one iteration of the loop of glyph_variation_index
GlyphVariationIndexRecord ==
    /\ pc = "glyph_variation_index"
    /\ n < num_tables
    /\ LET r == glyph_variation_index_record(cmap_data, n, c, variation)
       IN /\ subtable_data' = open_subtable(cmap_data, n).data
          /\ CASE r.t = "Continue" ->
                    /\ n' = n + 1
                    /\ UNCHANGED <<pc, result>>
               [] r.t = "Default" ->
                    /\ pc' = "default_glyph"
                    /\ UNCHANGED <<n, result>>
               [] OTHER ->
                    /\ Return(r)
                    /\ UNCHANGED n
    /\ UNCHANGED <<cmap_data, overflow_checks, c, variation, entry,
                   num_tables, start, end>>

\* the loop of glyph_variation_index is over: Err(Error::NoGlyph)
GlyphVariationIndexEnd ==
    /\ pc = "glyph_variation_index"
    /\ n >= num_tables
    /\ Return(NoGlyph)
    /\ UNCHANGED <<cmap_data, overflow_checks, c, variation, entry,
                   num_tables, n, subtable_data, start, end>>

Next ==
    \/ GlyphIndexCall
    \/ GlyphIndexDefault
    \/ GlyphIndexRecord
    \/ GlyphIndexEnd
    \/ GlyphVariationIndexCall
    \/ GlyphVariationIndexRecord
    \/ GlyphVariationIndexEnd

Spec == Init /\ [][Next]_vars

---------------------------------------------------------------------------
(* A parser on its own: the state is glyph_index at the dispatch on the    *)
(* format of the font's only subtable (cmap.rs 30).                        *)

AtDispatch(bytes, cp, position) ==
    /\ cmap_data = Cmap(<<Table(bytes)>>)
    /\ subtable_data = Slice(cmap_data, 12)
    /\ overflow_checks \in BOOLEAN
    /\ c = cp
    /\ variation = 0
    /\ entry = "glyph_index"
    /\ pc = position
    /\ num_tables = 1
    /\ n = 0
    /\ start = 0
    /\ end = 0
    /\ result = NoResult

(* Format 0 *)

\* the length field: empty, short, the array, the subtable, and beyond
ByteLengths == {0, 65, 256, 262, 300, 65535}
ByteGlyphs == {[i \in 0..255 |-> (i % 255) + 1],
               [i \in 0..255 |-> IF i % 2 = 0 THEN 0 ELSE 255 - i]}
\* what follows the subtable in the buffer: nothing, or another 64 bytes
ByteTails == {<<>>, Bytes(64, 9)}
ByteTables == {Format0Table(l, g) \o tail :
                  l \in ByteLengths, g \in ByteGlyphs, tail \in ByteTails}
ByteCodePoints == {0, 64, 65, 255, 256, 261, 299, 300, 65535, 65536, 1114111}

InitFormat0 ==
    \E bytes \in ByteTables, cp \in ByteCodePoints :
        AtDispatch(bytes, cp, "byte_encoding_table")

\* Format::ByteEncodingTable => parse_byte_encoding_table(&mut s, c)
ByteEncodingTable ==
    /\ pc = "byte_encoding_table"
    /\ Return(parse_byte_encoding_table(skip_u16(Stream(subtable_data)), c))
    /\ UNCHANGED <<cmap_data, overflow_checks, c, variation, entry,
                   num_tables, n, subtable_data, start, end>>

NextFormat0 == ByteEncodingTable

SpecFormat0 == InitFormat0 /\ [][NextFormat0]_vars

(* Format 4 *)

MaxSegments == 3

SegmentCodes == {65, 66, 65535}
\* the idDelta of the i-th segment of a generated table
SegmentDelta(i) == <<-29, 1, 7, -66, 300>>[((i - 1) % 5) + 1]

\* tables with every idRangeOffset zero, sorted ascending by endCode:
\* startCode and endCode of each segment are free
SortedSegments ==
    UNION {{segs \in [1..k -> {Segment(s, e, 0, 0) :
                                  s \in SegmentCodes, e \in SegmentCodes}] :
               \A i \in 1..(k - 1) : segs[i].end_code <= segs[i + 1].end_code} :
           k \in 0..MaxSegments}
DeltaTables ==
    {Format4Table([i \in 1..Len(segs) |->
                      [segs[i] EXCEPT !.id_delta = SegmentDelta(i)]], <<>>) :
        segs \in SortedSegments}

\* tables whose last segment goes through the glyphIdArray
RangeOffsets == {2, 4, 8, 65534, 65535}
OffsetTables ==
    {Format4Table(<<Segment(first, 65535, delta, iro)>>,
                  <<0, 7, 65535, 9>>) :
        first \in {0, 65}, delta \in {0, -8, 5}, iro \in RangeOffsets}
    \cup
    {Format4Table(<<Segment(16, 32, 3, 0), Segment(65, 65535, delta, iro)>>,
                  <<0, 7, 65535, 9>>) :
        delta \in {0, -8}, iro \in RangeOffsets}

SegmentTables == DeltaTables \cup OffsetTables
SegmentCodePoints == {0, 64, 65, 66, 67, 32768, 32769, 65535, 65536}

InitFormat4 ==
    \E bytes \in SegmentTables, cp \in SegmentCodePoints :
        AtDispatch(bytes, cp, "segment_mapping")

\* parse_segment_mapping_to_delta_values up to the loop (cmap.rs 216-241)
SegmentMappingEnter ==
    /\ pc = "segment_mapping"
    /\ IF c > 65535 THEN Return(None) /\ UNCHANGED <<start, end>>
       ELSE IF ~segment_arrays(subtable_data).ok
       THEN Return(Panic) /\ UNCHANGED <<start, end>>
       ELSE /\ start' = 0
            /\ end' = segment_arrays(subtable_data).seg_count
            /\ pc' = "segment_search"
            /\ UNCHANGED result
    /\ UNCHANGED <<cmap_data, overflow_checks, c, variation, entry,
                   num_tables, n, subtable_data>>

\* one iteration of `while end > start` (cmap.rs 242-270)
SegmentSearchStep ==
    /\ pc = "segment_search"
    /\ end > start
    /\ LET step == segment_search_step(subtable_data,
                                       segment_arrays(subtable_data),
                                       c, start, end)
       IN IF step.t = "Return"
          THEN Return(step.r) /\ UNCHANGED <<start, end>>
          ELSE /\ start' = step.start
               /\ end' = step.end
               /\ UNCHANGED <<pc, result>>
    /\ UNCHANGED <<cmap_data, overflow_checks, c, variation, entry,
                   num_tables, n, subtable_data>>

\* the loop ends without a segment: None (cmap.rs 272)
SegmentSearchEnd ==
    /\ pc = "segment_search"
    /\ ~(end > start)
    /\ Return(None)
    /\ UNCHANGED <<cmap_data, overflow_checks, c, variation, entry,
                   num_tables, n, subtable_data, start, end>>

NextFormat4 ==
    \/ SegmentMappingEnter
    \/ SegmentSearchStep
    \/ SegmentSearchEnd

SpecFormat4 == InitFormat4 /\ [][NextFormat4]_vars

(* Format 4: the loop on segments in any order *)

\* relative to 'B' (0x42): a segment that ends before it (the search goes
\* right), one that holds it (returns), one that starts after it (goes left)
SearchSegments == {Segment(65, 65, 0, 0), Segment(66, 66, 0, 0),
                   Segment(65535, 65535, 0, 0)}
\* tables of 0..MaxSegments segments in any order of endCode
UnsortedTables ==
    {Format4Table([i \in 1..Len(segs) |->
                      [segs[i] EXCEPT !.id_delta = SegmentDelta(i)]], <<>>) :
        segs \in UNION {[1..k -> SearchSegments] : k \in 0..MaxSegments}}

InitSearch ==
    \E bytes \in UnsortedTables : AtDispatch(bytes, 66, "segment_mapping")

\* the lookup is sequential code: a step that can be taken is taken
SpecSearch == InitSearch /\ [][NextFormat4]_vars /\ WF_vars(NextFormat4)

(* Format 2 *)

\* the glyphIndexArray of the generated tables
HighByteGlyphs == <<0, 21, 65000, 23, 24, 25, 26, 27, 28, 29, 30, 31>>
\* idRangeOffset of sub-header i of `count` that points at glyphIndexArray[0]
HighByteRangeOffset(i, count) == 8 * (count - i - 1) + 2
HighByteSubHeaders(count) ==
    {[first_code |-> first, entry_count |-> entries, id_delta |-> delta,
      id_range_offset |-> HighByteRangeOffset(0, count) + shift] :
        first \in {0, 48, 65535}, entries \in {0, 10, 65535},
        delta \in {0, -100, 1000}, shift \in {0, 2}}
\* subHeaderKeys: every high byte on sub-header 0, or 0x81 on sub-header 1
HighByteTables ==
    {Format2Table([k \in 0..255 |-> 0], <<h>>, HighByteGlyphs) :
        h \in HighByteSubHeaders(1)}
    \cup
    {Format2Table([k \in 0..255 |-> IF k = 129 THEN 8 ELSE 0],
                  <<h, [first_code |-> 64, entry_count |-> 189,
                        id_delta |-> -100,
                        id_range_offset |-> HighByteRangeOffset(1, 2)]>>,
                  HighByteGlyphs) :
        h \in HighByteSubHeaders(2)}
HighByteCodePoints == {0, 1, 2, 48, 49, 50, 58, 59, 254, 255,
                       33088, 33089, 33090, 33279, 65535, 65536}

InitFormat2 ==
    \E bytes \in HighByteTables, cp \in HighByteCodePoints :
        AtDispatch(bytes, cp, "high_byte_mapping")

\* Format::HighByteMappingThroughTable =>
\*     parse_high_byte_mapping_through_table(subtable_data, c)
HighByteMappingThroughTable ==
    /\ pc = "high_byte_mapping"
    /\ Return(parse_high_byte_mapping_through_table(subtable_data, c))
    /\ UNCHANGED <<cmap_data, overflow_checks, c, variation, entry,
                   num_tables, n, subtable_data, start, end>>

NextFormat2 == HighByteMappingThroughTable

SpecFormat2 == InitFormat2 /\ [][NextFormat2]_vars

(* Formats 12 and 13 *)

MaxGroups == 2

\* startCharCode '0' or U+1F600; endCharCode '9', U+1F64F or 0xFFFFFFFF;
\* startGlyphId small, just below 2^16, above 2^16 and just below 2^32
CoverageGroups ==
    {Group(ToU32(first), last, glyph) :
        first \in {48, 128512},
        last \in {ToU32(57), ToU32(128591), U32(65535, 65535)},
        glyph \in {U32(0, 200), U32(0, 65530), U32(1, 5), U32(65535, 65520)}}
CoverageTables ==
    {Format12Table(format, groups) :
        format \in {12, 13},
        groups \in UNION {[1..k -> CoverageGroups] : k \in 0..MaxGroups}}
CoverageCodePoints == {47, 48, 57, 58, 128512, 128522, 128591, 128592,
                       1114111}

InitFormat12 ==
    \E bytes \in CoverageTables, cp \in CoverageCodePoints :
        AtDispatch(bytes, cp, "segmented_coverage")

\* Format::SegmentedCoverage | Format::ManyToOneRangeMappings =>
\*     parse_segmented_coverage(&mut s, c, format)
SegmentedCoverage ==
    /\ pc = "segmented_coverage"
    /\ Return(parse_segmented_coverage(
                  skip_u16(Stream(subtable_data)), c,
                  parse_format(read_u16(Stream(subtable_data)))))
    /\ UNCHANGED <<cmap_data, overflow_checks, c, variation, entry,
                   num_tables, n, subtable_data, start, end>>

NextFormat12 == SegmentedCoverage

SpecFormat12 == InitFormat12 /\ [][NextFormat12]_vars

---------------------------------------------------------------------------
(* What the claims speak of, read off the buffer without the walk.         *)

Done == pc = "done"
GlyphIndexDone == Done /\ entry = "glyph_index"
VariationDone == Done /\ entry = "glyph_variation_index"

\* the encoding records the header announces (none if it cannot be read)
RecordIndexes(data) ==
    IF header_readable(data) THEN 0..(header_num_tables(data) - 1) ELSE {}

\* what record k's subtable parser yields for cp: Some(glyph), else None
RecordYield(data, k, cp) ==
    LET sub == open_subtable(data, k)
    IN IF sub.t # "Format" THEN None
       ELSE LET glyph == dispatch(sub.format, sub.data, cp)
            IN IF glyph.t = "Some" THEN glyph ELSE None

\* the glyph of the lowest-index record that yields a match
FirstMatch(data, cp) ==
    LET matching == {k \in RecordIndexes(data) :
                        RecordYield(data, k, cp).t = "Some"}
    IN IF matching = {} THEN NoGlyph
       ELSE Ok(RecordYield(data,
                           CHOOSE k \in matching :
                               \A j \in matching : k <= j,
                           cp).v)

\* record k's offset is at or past the end of the buffer, or its subtable
\* is too short for the fields its parser reads
RecordMalformed(data, k) ==
    LET sub == open_subtable(data, k)
    IN \/ sub.t = "Panic"
       \/ /\ sub.t = "Format"
          /\ sub.format = "SegmentMappingToDeltaValues"
          /\ ~segment_arrays(sub.data).ok

\* the header and the encoding records it announces are in the buffer
DirectoryComplete(data) ==
    /\ header_readable(data)
    /\ 4 + 8 * header_num_tables(data) <= Len(data)

\* every record of the directory is there and points at a subtable in the
\* buffer that is not cut short
DirectoryWellFormed(data) ==
    /\ DirectoryComplete(data)
    /\ \A k \in RecordIndexes(data) : ~RecordMalformed(data, k)

\* the buffer with one more encoding record at position k of the directory,
\* its subtable `sub` appended to the buffer
InsertRecord(data, k, sub) ==
    LET count == header_num_tables(data)
        moved(i) == SubSeq(data, 5 + 8 * i, 8 + 8 * i)
                    \o BE32(U32Add(read_u32(at(data, 8 + 8 * i)),
                                   U32(0, 8)).v)
    IN SubSeq(data, 1, 2) \o BE16(count + 1)
       \o Flatten([i \in 1..k |-> moved(i - 1)])
       \o BE16(0) \o BE16(3) \o BE32(ToU32(Len(data) + 8))
       \o Flatten([i \in 1..(count - k) |-> moved(k + i - 1)])
       \o SubSeq(data, 5 + 8 * count, Len(data))
       \o sub

\* subtables glyph_index skips: an unknown format code, formats 6, 8, 10, 14
SkippedTables ==
    {UnknownTable, TrimmedTable, BE16(8) \o Bytes(4, 0),
     BE16(10) \o Bytes(4, 0), VariationTable2}

\* the first format 14 subtable of the directory, in file order
VariationRecords(data) ==
    {k \in RecordIndexes(data) :
        LET sub == open_subtable(data, k)
        IN sub.t = "Format" /\ sub.format = "UnicodeVariationSequences"}
FirstVariationSubtable(data) ==
    open_subtable(data, CHOOSE k \in VariationRecords(data) :
                            \A j \in VariationRecords(data) : k <= j).data

\* the VariationSelectorRecords of a format 14 subtable equal to selector
SelectorRecords(sub, selector) ==
    LET count == AsUsize(read_u32(at(sub, 6)))
    IN {r \in {VariationSelectorRecord_parse(
                   at(sub, 10 + VariationSelectorRecord_size * i)) :
                   i \in 0..(count - 1)} :
           r.variation = selector}

\* the records of the count-prefixed table at `offset` of the subtable
UvsRecords(sub, offset, size) ==
    IF IsNullOffset(offset) THEN {}
    ELSE {at(sub, AsUsize(offset) + 4 + size * i) :
             i \in 0..(AsUsize(read_u32(at(sub, AsUsize(offset)))) - 1)}

\* cp lies in a range [start, start + additional_count] of the Default UVS
\* table of the selector's record in the first format 14 subtable
InDefaultRange(data, selector, cp) ==
    /\ VariationRecords(data) # {}
    /\ LET sub == FirstVariationSubtable(data)
       IN \E r \in SelectorRecords(sub, selector) :
              \E s \in UvsRecords(sub, r.default_uvs_offset,
                                  UnicodeRangeRecord_size) :
                  LET range == UnicodeRangeRecord_parse(s)
                  IN /\ range.start_unicode_value <= cp
                     /\ cp <= range.start_unicode_value
                                  + range.additional_count

\* the selector's record has a Non-Default UVS mapping of cp
HasNonDefaultMapping(data, selector, cp) ==
    /\ VariationRecords(data) # {}
    /\ LET sub == FirstVariationSubtable(data)
       IN \E r \in SelectorRecords(sub, selector) :
              \E s \in UvsRecords(sub, r.non_default_uvs_offset,
                                  UVSMappingRecord_size) :
                  read_u24(s) = cp

---------------------------------------------------------------------------
(* The claims about the walk, checked under Spec.                          *)

\* C1: glyph_index never returns Ok(GlyphId(0)): a subtable whose parser
\* produces glyph id 0 counts as no match.
C1_NeverGlyphZero == GlyphIndexDone => result # Ok(0)

\* C2: glyph_index returns the glyph of the first encoding record, in file
\* order, whose subtable parser yields a match, and NoGlyph if none does
\* (also with numTables = 0); later records do not influence the result.
C2_FirstMatchInFileOrder ==
    (GlyphIndexDone /\ DirectoryComplete(cmap_data))
    => result = FirstMatch(cmap_data, c)

\* C2 on the calls that return: the same statement where no record before
\* the first match makes the walk panic.
C2_FirstMatchUnlessPanic ==
    (GlyphIndexDone /\ result # Panic) => result = FirstMatch(cmap_data, c)

\* C3: if an encoding record's offset is at or past the end of the buffer
\* (or its subtable is too short), neither lookup aborts: the record is
\* skipped and the result is a glyph of another record or NoGlyph.
C3_MalformedRecordSkipped ==
    (/\ Done
     /\ DirectoryComplete(cmap_data)
     /\ \E k \in RecordIndexes(cmap_data) : RecordMalformed(cmap_data, k))
    => result.t \in {"Ok", "NoGlyph"}

\* C4: inserting an encoding record whose subtable has an unknown format
\* code, or format 6, 8, 10 or 14, anywhere in the directory does not
\* change the result of glyph_index.
C4_FormatIndependence ==
    (GlyphIndexDone /\ DirectoryWellFormed(cmap_data))
    => \A k \in 0..header_num_tables(cmap_data) :
           \A sub \in SkippedTables :
               glyph_index(InsertRecord(cmap_data, k, sub), c) = result

\* C4 where no parser reads outside its buffer: the same statement on the
\* calls that do not panic before or after the insertion.
C4_FormatIndependenceUnlessPanic ==
    (GlyphIndexDone /\ DirectoryWellFormed(cmap_data) /\ result # Panic)
    => \A k \in 0..header_num_tables(cmap_data) :
           \A sub \in SkippedTables :
               glyph_index(InsertRecord(cmap_data, k, sub), c) = result

\* C5: when the selector's record has a Default UVS range with
\* start <= c <= start + additional_count, glyph_variation_index(c,
\* selector) returns exactly what glyph_index(c) returns on the same font.
C5_DefaultRangeIsGlyphIndex ==
    (VariationDone /\ InDefaultRange(cmap_data, variation, c))
    => result = glyph_index(cmap_data, c)

\* C6: the Default UVS table is consulted before the Non-Default one: a
\* code point in a default range that also has a non-default mapping for
\* the selector resolves to glyph_index(c), never to the mapping's glyph.
C6_DefaultBeforeNonDefault ==
    (/\ VariationDone
     /\ InDefaultRange(cmap_data, variation, c)
     /\ HasNonDefaultMapping(cmap_data, variation, c))
    => result = glyph_index(cmap_data, c)

\* C7: glyph_variation_index returns NoGlyph when the directory has no
\* format 14 subtable, when the first format 14 subtable has no record for
\* the selector, and when that record has both offsets null; only the
\* first format 14 subtable is consulted.
C7_VariationNoGlyph ==
    (VariationDone /\ DirectoryComplete(cmap_data)) =>
        LET has == VariationRecords(cmap_data) # {}
            recs == SelectorRecords(FirstVariationSubtable(cmap_data),
                                    variation)
        IN (\/ ~has
            \/ recs = {}
            \/ \E r \in recs : /\ IsNullOffset(r.default_uvs_offset)
                               /\ IsNullOffset(r.non_default_uvs_offset))
           => result = NoGlyph

\* C7 on the calls that return: the same statement where no record up to
\* the first format 14 subtable makes the walk panic.
C7_VariationNoGlyphUnlessPanic ==
    (VariationDone /\ result # Panic) =>
        LET has == VariationRecords(cmap_data) # {}
            recs == SelectorRecords(FirstVariationSubtable(cmap_data),
                                    variation)
        IN (\/ ~has
            \/ recs = {}
            \/ \E r \in recs : /\ IsNullOffset(r.default_uvs_offset)
                               /\ IsNullOffset(r.non_default_uvs_offset))
           => result = NoGlyph

---------------------------------------------------------------------------
(* The claim about format 0, checked under SpecFormat0.                    *)

\* the length field and the glyphIdArray of the format 0 subtable at hand
ByteLength == read_u16(at(subtable_data, 2))
ByteGlyph(cp) == read_u8(at(subtable_data, 6 + cp))
ByteReadOffset ==
    byte_encoding_read_offset(skip_u16(Stream(subtable_data)), c)

\* C8: a format 0 subtable covers code points 0..255 only: cp < length
\* yields the byte at index cp of the 256-byte array, every cp >= 256 yields
\* no match, and no byte outside the array is read whatever the length is.
C8_ByteEncodingTable ==
    Done => /\ (c < ByteLength /\ c < 256) => result = Some(ByteGlyph(c))
            /\ c >= ByteLength => result = None
            /\ c >= 256 => result = None
            /\ ByteReadOffset = -1 \/ ByteReadOffset \in 6..261

\* C8 for the byte codes: the same statement for code points below 256.
C8_ByteCodes ==
    (Done /\ c < 256) =>
        /\ c < ByteLength => result = Some(ByteGlyph(c))
        /\ c >= ByteLength => result = None
        /\ ByteReadOffset = -1 \/ ByteReadOffset \in 6..261

---------------------------------------------------------------------------
(* The claims about format 4, checked under SpecFormat4.                   *)

\* the arrays of the format 4 subtable at hand, by their place in it
SegCount == read_u16(at(subtable_data, 6)) \div 2
EndCode(i) == read_u16(at(subtable_data, 14 + 2 * i))
StartCode(i) == read_u16(at(subtable_data, 16 + 2 * SegCount + 2 * i))
IdDelta(i) == read_i16(at(subtable_data, 16 + 4 * SegCount + 2 * i))
IdRangeOffset(i) == read_u16(at(subtable_data, 16 + 6 * SegCount + 2 * i))

SortedByEndCode == \A i \in 0..(SegCount - 2) : EndCode(i) <= EndCode(i + 1)
AllRangeOffsetsZero == \A i \in 0..(SegCount - 1) : IdRangeOffset(i) = 0
\* each segment starts after the one before it ends
SegmentsDisjoint == \A i \in 0..(SegCount - 2) : StartCode(i + 1) > EndCode(i)

\* the linear reference: the first segment with endCode >= cp decides
LinearLookup(cp) ==
    LET reached == {i \in 0..(SegCount - 1) : EndCode(i) >= cp}
    IN IF reached = {} THEN None
       ELSE LET i == CHOOSE i \in reached : \A j \in reached : i <= j
            IN IF StartCode(i) <= cp
               THEN Some((cp + IdDelta(i) + U16Mod) % U16Mod)
               ELSE None

\* C9: with segments sorted ascending by endCode and every idRangeOffset
\* zero, the binary search gives, for every cp <= 0xFFFF, the result of the
\* linear reference: (cp + idDelta[i]) mod 65536 for the first segment i
\* with endCode[i] >= cp if startCode[i] <= cp, else no match.
C9_BinaryEqualsLinear ==
    (Done /\ c <= 65535 /\ SortedByEndCode /\ AllRangeOffsetsZero)
    => result = LinearLookup(c)

\* C9 as amended: the same for segments that, besides, do not overlap
\* (startCode[i + 1] > endCode[i]).
C9_BinaryEqualsLinearDisjoint ==
    (/\ Done
     /\ c <= 65535
     /\ SortedByEndCode
     /\ AllRangeOffsetsZero
     /\ SegmentsDisjoint)
    => result = LinearLookup(c)

\* a lookup of 'A' in <<[65, 65], [65535, 65535]>> ended with glyph 36
C9_Witness ==
    /\ Done
    /\ c = 65
    /\ SegCount = 2
    /\ SortedByEndCode /\ AllRangeOffsetsZero /\ SegmentsDisjoint
    /\ StartCode(0) = 65 /\ EndCode(0) = 65
    /\ result = Some(36)

\* the segment the search returned from: the last probe of the loop
FoundIndex == (start + end) \div 2
FoundSegment ==
    /\ Done
    /\ c <= 65535
    /\ end > start
    /\ EndCode(FoundIndex) >= c
    /\ StartCode(FoundIndex) <= c

\* C10: for a segment with non-zero idRangeOffset the lookup reads the u16
\* at pos = ((id_range_offset_pos + index * 2) mod 65536) + idRangeOffset
\* + (cp - startCode[index]) * 2 in wrapping 16-bit arithmetic, so that no
\* overflow aborts it; a zero there is no match, any other value v yields
\* (v + idDelta[index]) mod 65536.
C10_RangeOffsetWraps ==
    (FoundSegment /\ IdRangeOffset(FoundIndex) # 0) =>
        LET id_range_offset_pos == (16 + 6 * SegCount + FoundIndex * 2)
                                       % U16Mod
            pos == (id_range_offset_pos + IdRangeOffset(FoundIndex)
                    + (c - StartCode(FoundIndex)) * 2) % U16Mod
            v == read_u16(at(subtable_data, pos))
        IN can_read(at(subtable_data, pos), 2) =>
               result = IF v = 0 THEN None
                        ELSE Some((v + IdDelta(FoundIndex) + U16Mod) % U16Mod)

\* C10 in a build without overflow checks: the same statement there.
C10_RangeOffsetWrapsUnchecked ==
    ~overflow_checks => C10_RangeOffsetWraps

---------------------------------------------------------------------------
(* The claim about format 2, checked under SpecFormat2.                    *)

\* the fields of the format 2 subtable at hand, by their place in it
SubHeaderKey(k) == read_u16(at(subtable_data, 6 + 2 * k))
SubHeadersOffset == 6 + 256 * 2
SubHeaderIndex == IF c < 255 THEN 0 ELSE SubHeaderKey(c \div 256) \div 8
FirstCode == read_u16(at(subtable_data, SubHeadersOffset + 8 * SubHeaderIndex))
EntryCount ==
    read_u16(at(subtable_data, SubHeadersOffset + 8 * SubHeaderIndex + 2))
SubHeaderDelta ==
    read_i16(at(subtable_data, SubHeadersOffset + 8 * SubHeaderIndex + 4))
SubHeaderRangeOffset ==
    read_u16(at(subtable_data, SubHeadersOffset + 8 * SubHeaderIndex + 6))
LowByte == c % 256
\* where the claim places the glyph: sub_headers_offset + 8 * (i + 1) - 2
\* + id_range_offset + (low_byte - first_code) * 2
HighByteGlyphOffset ==
    SubHeadersOffset + 8 * (SubHeaderIndex + 1) - 2 + SubHeaderRangeOffset
        + (LowByte - FirstCode) * 2
\* the result the claim gives, first_code + entry_count taken as a number
HighByteLookup ==
    IF LowByte < FirstCode \/ LowByte > FirstCode + EntryCount THEN None
    ELSE LET g == read_u16(at(subtable_data, HighByteGlyphOffset))
         IN IF g = 0 THEN None
            ELSE Some((g + SubHeaderDelta + U16Mod) % U16Mod)
\* the glyph the claim reads is in the buffer, or the claim reads none
HighByteReadInBuffer ==
    \/ LowByte < FirstCode
    \/ LowByte > FirstCode + EntryCount
    \/ can_read(at(subtable_data, HighByteGlyphOffset), 2)

\* C11: for a format 2 subtable and cp <= 0xFFFF with sub-header i (0 if
\* cp < 0xFF, else subHeaderKeys[cp >> 8] / 8): no match if low_byte is
\* below first_code or above first_code + entry_count, else the u16 g at
\* sub_headers_offset + 8 * (i + 1) - 2 + id_range_offset
\* + (low_byte - first_code) * 2 decides: no match if g = 0, else
\* (g + id_delta) mod 65536; first_code + entry_count never overflows, so
\* the sum is the number itself and the lookup is not aborted.
C11_HighByteMapping ==
    (Done /\ c <= 65535 /\ HighByteReadInBuffer) => result = HighByteLookup

\* C11 for sub-headers with first_code + entry_count <= 0xFFFF: the same
\* statement where the 16-bit sum cannot overflow.
C11_HighByteMappingInRange ==
    (Done /\ c <= 65535 /\ HighByteReadInBuffer
          /\ FirstCode + EntryCount < U16Mod)
    => result = HighByteLookup

---------------------------------------------------------------------------
(* The claims about formats 12 and 13, checked under SpecFormat12.         *)

\* the fields of the format 12/13 subtable at hand, by their place in it
CoverageFormat == read_u16(at(subtable_data, 0))
NumGroups == AsUsize(read_u32(at(subtable_data, 12)))
StartCharCode(g) == read_u32(at(subtable_data, 16 + 12 * g))
EndCharCode(g) == read_u32(at(subtable_data, 20 + 12 * g))
StartGlyphId(g) == read_u32(at(subtable_data, 24 + 12 * g))

\* the groups with startCharCode <= cp <= endCharCode
ContainingGroups(cp) ==
    {g \in 0..(NumGroups - 1) : /\ U32Le(StartCharCode(g), ToU32(cp))
                                /\ U32Le(ToU32(cp), EndCharCode(g))}
\* the reference: the first containing group decides
CoverageLookup(cp) ==
    IF ContainingGroups(cp) = {} THEN None
    ELSE LET g == CHOOSE g \in ContainingGroups(cp) :
                      \A j \in ContainingGroups(cp) : g <= j
         IN IF CoverageFormat = 12
            THEN Some((StartGlyphId(g).lo + (cp - AsUsize(StartCharCode(g))))
                          % U16Mod)
            ELSE Some(StartGlyphId(g).lo)

\* no group of the subtable ends at 0xFFFFFFFF or has startGlyphId + cp
\* at 2^32 or above
GroupsInRange(cp) ==
    \A g \in 0..(NumGroups - 1) :
        /\ EndCharCode(g) # U32(65535, 65535)
        /\ ~U32Add(StartGlyphId(g), ToU32(cp)).overflow

\* C12: for formats 12 and 13 the first group, in order, with
\* startCharCode <= cp <= endCharCode decides: format 12 gives
\* startGlyphId + (cp - startCharCode) truncated to 16 bits, format 13 gives
\* startGlyphId truncated to 16 bits; no containing group is no match.
C12_FirstGroupDecides == Done => result = CoverageLookup(c)

\* C12 for groups whose fields stay clear of the 32-bit limit: the same
\* statement where endCharCode + 1 and startGlyphId + cp fit 32 bits.
C12_FirstGroupDecidesInRange ==
    (Done /\ GroupsInRange(c)) => result = CoverageLookup(c)

---------------------------------------------------------------------------
(* The claim about the format 4 loop, checked under SpecSearch.            *)

\* the interval is inside the arrays and every probe is an index of them
SearchInBounds ==
    pc = "segment_search" =>
        /\ 0 <= start /\ start <= end /\ end <= SegCount
        /\ end > start => (start + end) \div 2 \in 0..(SegCount - 1)
\* an iteration returns or leaves a strictly shorter interval
SearchShrinks ==
    pc = "segment_search" =>
        \/ pc' = "done"
        \/ /\ pc' = "segment_search"
           /\ end' - start' < end - start
\* no segments: no match
EmptySearch == (Done /\ SegCount = 0) => result = None

\* C13: the format 4 binary search terminates for every segCount, 0
\* included, and every content of endCode and startCode, sorted or not: an
\* iteration returns or strictly shrinks [start, end), every probed index
\* is in 0..segCount-1, and segCount = 0 gives no match.
C13_SearchTerminates ==
    /\ [](SearchInBounds /\ EmptySearch)
    /\ [][SearchShrinks]_vars
    /\ <>Done

\* a search of three segments not sorted by endCode ran its interval empty
C13_Witness ==
    /\ Done
    /\ c <= 65535
    /\ SegCount = 3
    /\ ~SortedByEndCode
    /\ start = end
    /\ result = None

---------------------------------------------------------------------------
(* The claim about 32-bit arithmetic in formats 12 and 13, checked under   *)
(* SpecFormat12, whose subtables hold every group they announce.           *)

\* C14: parsing and evaluating a format 12/13 group never aborts the lookup
\* on 32-bit overflow, whatever the fields: endCharCode + 1 (0xFFFFFFFF
\* included) and startGlyphId + cp - startCharCode (startGlyphId close to
\* 2^32 included) stay within u32 or wrap.
C14_GroupArithmeticNeverAborts == Done => result # Panic

\* C14 in a build without overflow checks: the same statement there.
C14_GroupArithmeticUnchecked ==
    ~overflow_checks => C14_GroupArithmeticNeverAborts

=============================================================================
